---- MODULE Spec2Model ----
(***************************************************************************)
(* Model of src/App.tsx: the transaction store of the finance tracker.     *)
(* The App component seeds its `transactions` state from the localStorage  *)
(* slot 'transactions' (lazy useState initializer, lines 10-55), writes    *)
(* the state back in a passive effect (lines 57-59), mutates it through    *)
(* addTransaction / deleteTransaction (lines 61-72) and derives the totals *)
(* in a useMemo (lines 74-92).                                             *)
(***************************************************************************)
EXTENDS Integers, Sequences, FiniteSets

(***************************************************************************)
(* Bounds of the model.                                                    *)
(***************************************************************************)
MaxPayload == 2
MaxLen == 3
MaxNow == 2
MaxNum == 60
MaxUuid == 3
MaxNormPrefix == 1

(***************************************************************************)
(* JavaScript values.  Every value is a record [k, s, n]: k is the kind,   *)
(* s the text of a string, n the integer of a number or the truth value    *)
(* (1/0) of a boolean.  A number that is not finite has its name in s:    *)
(* "NaN", "Infinity" or "-Infinity".  In a payload, Infinity is what a     *)
(* literal beyond the double range (1e999) decodes to.                     *)
(***************************************************************************)
Undefined == [k |-> "undefined", s |-> "", n |-> 0]
Null      == [k |-> "null", s |-> "", n |-> 0]
Str(t)    == [k |-> "string", s |-> t, n |-> 0]
Num(i)    == [k |-> "number", s |-> "", n |-> i]
NaN       == [k |-> "number", s |-> "NaN", n |-> 0]
Infinity  == [k |-> "number", s |-> "Infinity", n |-> 0]
NegInfinity == [k |-> "number", s |-> "-Infinity", n |-> 0]
Bool(b)   == [k |-> "boolean", s |-> "", n |-> IF b THEN 1 ELSE 0]
EmptyArr  == [k |-> "array", s |-> "", n |-> 0]
Obj       == [k |-> "object", s |-> "", n |-> 0]

IsNaN(v) == v.k = "number" /\ v.s = "NaN"
IsFinite(v) == v.k = "number" /\ v.s = ""

\* ToBoolean, as used by `||` and `&&`.
Truthy(v) ==
  CASE v.k = "undefined" -> FALSE
    [] v.k = "null"      -> FALSE
    [] v.k = "string"    -> v.s # ""
    [] v.k = "number"    -> ~IsNaN(v) /\ (~IsFinite(v) \/ v.n # 0)
    [] v.k = "boolean"   -> v.n = 1
    [] OTHER             -> TRUE

\* a || b
Or(a, b) == IF Truthy(a) THEN a ELSE b

Digit == <<"0", "1", "2", "3", "4", "5", "6", "7", "8", "9">>

RECURSIVE NatToString(_)
NatToString(i) ==
  IF i < 10 THEN Digit[i + 1]
  ELSE NatToString(i \div 10) \o Digit[(i % 10) + 1]

\* Number.prototype.toString for an integer.
IntToString(i) == IF i < 0 THEN "-" \o NatToString(-i) ELSE NatToString(i)

\* String(v)
JsString(v) ==
  CASE v.k = "undefined" -> "undefined"
    [] v.k = "null"      -> "null"
    [] v.k = "string"    -> v.s
    [] v.k = "number"    -> IF IsFinite(v) THEN IntToString(v.n) ELSE v.s
    [] v.k = "boolean"   -> IF v.n = 1 THEN "true" ELSE "false"
    [] v.k = "array"     -> ""
    [] OTHER             -> "[object Object]"

\* The numeric literal a string spells, or NaN.
StringToNumber(t) ==
  IF t = "" THEN Num(0)
  ELSE IF t = "Infinity" THEN Infinity
  ELSE IF t = "-Infinity" THEN NegInfinity
  ELSE IF \E i \in (-MaxNum)..MaxNum : IntToString(i) = t
       THEN Num(CHOOSE i \in (-MaxNum)..MaxNum : IntToString(i) = t)
       ELSE NaN

\* Number(v)
ToNumber(v) ==
  CASE v.k = "undefined" -> NaN
    [] v.k = "null"      -> Num(0)
    [] v.k = "string"    -> StringToNumber(v.s)
    [] v.k = "number"    -> v
    [] v.k = "boolean"   -> Num(v.n)
    [] v.k = "array"     -> Num(0)
    [] OTHER             -> NaN

\* a + b and a - b on numbers.
JsNeg(a) ==
  IF IsNaN(a) THEN NaN
  ELSE IF IsFinite(a) THEN Num(-a.n)
  ELSE IF a = Infinity THEN NegInfinity ELSE Infinity

JsAdd(a, b) ==
  IF IsNaN(a) \/ IsNaN(b) THEN NaN
  ELSE IF IsFinite(a) /\ IsFinite(b) THEN Num(a.n + b.n)
  ELSE IF IsFinite(a) THEN b
  ELSE IF IsFinite(b) \/ a = b THEN a
  ELSE NaN

JsSub(a, b) == JsAdd(a, JsNeg(b))

(***************************************************************************)
(* Dates.  A Date is its time value in milliseconds, a number (NaN for an  *)
(* Invalid Date).  toISOString and the Date(string) parser are modelled    *)
(* on the instants 0..MaxNow of the epoch second.                          *)
(***************************************************************************)
Pad3(i) ==
  IF i < 10 THEN "00" \o NatToString(i)
  ELSE IF i < 100 THEN "0" \o NatToString(i)
  ELSE NatToString(i)

\* Date.prototype.toISOString (also Date.prototype.toJSON)
ToISOString(ms) == "1970-01-01T00:00:00." \o Pad3(ms) \o "Z"

DateOnly == "1970-01-01"

\* new Date(v).getTime()
DateParse(v) ==
  CASE v.k = "string" ->
         IF v.s = DateOnly THEN Num(0)
         ELSE IF \E ms \in 0..MaxNow : ToISOString(ms) = v.s
              THEN Num(CHOOSE ms \in 0..MaxNow : ToISOString(ms) = v.s)
              ELSE NaN
    [] v.k = "number"  -> IF IsFinite(v) THEN v ELSE NaN
    [] v.k = "boolean" -> Num(v.n)
    [] OTHER           -> NaN

(***************************************************************************)
(* Transactions and the raw elements of a decoded payload.                 *)
(*   raw element  [ek, id, description, amount, type, date]: ek is "null", *)
(*                "primitive" (a number, string or boolean, every property *)
(*                of which reads undefined) or "object"; the fields are    *)
(*                JavaScript values, Undefined when the property is absent.*)
(*   transaction  [id, description, amount, type, date]: id, description   *)
(*                and type are strings, amount a number (possibly NaN),    *)
(*                date a time value in milliseconds.                       *)
(***************************************************************************)
INCOME  == "INCOME"
EXPENSE == "EXPENSE"
TransactionType == {INCOME, EXPENSE}

NullElem == [ek |-> "null", id |-> Undefined, description |-> Undefined,
             amount |-> Undefined, type |-> Undefined, date |-> Undefined]
PrimElem == [ek |-> "primitive", id |-> Undefined, description |-> Undefined,
             amount |-> Undefined, type |-> Undefined, date |-> Undefined]
ObjElem(i, d, a, ty, dt) ==
  [ek |-> "object", id |-> i, description |-> d, amount |-> a, type |-> ty,
   date |-> dt]

\* crypto.randomUUID(): the n-th identifier the generator hands out.
randomUUID(n) == "uuid-" \o NatToString(n)

\* line 32: String(t.id || crypto.randomUUID())
NormalizeId(t, uuid) == JsString(Or(t.id, Str(randomUUID(uuid))))

\* line 33: String(t.description || "N/A")
NormalizeDescription(t) == JsString(Or(t.description, Str("N/A")))

\* line 34: Number(t.amount || 0)
NormalizeAmount(t) == ToNumber(Or(t.amount, Num(0)))

\* Variant of the type check that accepts any string.
NormalizeTypeAnyString(t) ==
  IF t.type.k = "string" THEN t.type.s ELSE EXPENSE

\* line 35: Object.values(TransactionType).includes(t.type) ? t.type : EXPENSE
NormalizeType(t) ==
  IF t.type.k = "string" /\ t.type.s \in TransactionType
  THEN t.type.s ELSE EXPENSE

\* lines 19-29: the parsed date, or the current date as fallback.
NormalizeDate(t, clock) ==
  IF Truthy(t.date)
  THEN LET parsedDate == DateParse(t.date)
       IN IF IsNaN(parsedDate) THEN clock ELSE parsedDate.n
  ELSE clock

\* lines 18-43: the callback of the map.  Reading a property of null
\* (t.id in the template literal of line 27) throws a TypeError.
MapCallback(t, clock, uuid) ==
  IF t.ek = "null"
  THEN [threw |-> TRUE, uuid |-> uuid,
        value |-> [id |-> "", description |-> "", amount |-> Num(0),
                   type |-> EXPENSE, date |-> 0]]
  ELSE [threw |-> FALSE,
        uuid  |-> IF Truthy(t.id) THEN uuid ELSE uuid + 1,
        value |-> [id          |-> NormalizeId(t, uuid),
                   description |-> NormalizeDescription(t),
                   amount      |-> NormalizeAmount(t),
                   type        |-> NormalizeType(t),
                   date        |-> NormalizeDate(t, clock)]]

\* lines 18-44: typedTransactions.map(...).filter(t => t !== null), the
\* elements taken in order; the first throw abandons the map.
RECURSIVE MapAll(_, _, _)
MapAll(items, clock, uuid) ==
  IF items = <<>>
  THEN [threw |-> FALSE, uuid |-> uuid, value |-> <<>>]
  ELSE LET h == MapCallback(Head(items), clock, uuid)
       IN IF h.threw
          THEN [threw |-> TRUE, uuid |-> h.uuid, value |-> <<>>]
          ELSE LET r == MapAll(Tail(items), clock, h.uuid)
               IN [threw |-> r.threw, uuid |-> r.uuid,
                   value |-> IF r.threw THEN <<>> ELSE <<h.value>> \o r.value]

(***************************************************************************)
(* The persisted slot.  [sk, jk, items]: sk is "absent" (never written),   *)
(* "empty" (the empty string), "garbage" (text JSON.parse rejects) or      *)
(* "json"; for "json", jk is the kind of the decoded value and items its   *)
(* elements when it is an array.                                           *)
(***************************************************************************)
SlotAbsent  == [sk |-> "absent", jk |-> "", items |-> <<>>]
SlotEmpty   == [sk |-> "empty", jk |-> "", items |-> <<>>]
SlotGarbage == [sk |-> "garbage", jk |-> "", items |-> <<>>]
SlotJson(kind) == [sk |-> "json", jk |-> kind, items |-> <<>>]
SlotArray(es)  == [sk |-> "json", jk |-> "array", items |-> es]

\* lines 13-48: the body of the try block.
TryBody(saved, clock, uuid) ==
  IF saved.sk = "garbage"
  THEN [threw |-> TRUE, uuid |-> uuid, value |-> <<>>]
  ELSE IF saved.jk = "array"
       THEN MapAll(saved.items, clock, uuid)
       ELSE [threw |-> FALSE, uuid |-> uuid, value |-> <<>>]

\* Variant of the initializer without the try/catch.
StateInitializerNoCatch(saved, clock, uuid) ==
  IF saved.sk \in {"absent", "empty"}
  THEN [threw |-> FALSE, uuid |-> uuid, value |-> <<>>]
  ELSE TryBody(saved, clock, uuid)

\* lines 10-55: the lazy initializer of useState.
StateInitializer(saved, clock, uuid) ==
  IF saved.sk \in {"absent", "empty"}
  THEN [threw |-> FALSE, uuid |-> uuid, value |-> <<>>]
  ELSE LET r == TryBody(saved, clock, uuid)
       IN IF r.threw
          THEN [threw |-> FALSE, uuid |-> r.uuid, value |-> <<>>]
          ELSE r

\* JSON.stringify of one transaction: a Date becomes its ISO string and an
\* amount that is not finite becomes null.
StringifyTransaction(tr) ==
  ObjElem(Str(tr.id), Str(tr.description),
          IF IsFinite(tr.amount) THEN tr.amount ELSE Null,
          Str(tr.type), Str(ToISOString(tr.date)))

\* line 58: JSON.stringify(transactions)
JSONstringify(trs) ==
  SlotArray([i \in 1..Len(trs) |-> StringifyTransaction(trs[i])])

(***************************************************************************)
(* The store operations and the aggregator.                                *)
(***************************************************************************)
\* lines 62-65: the updater of addTransaction.
addTransaction(prevTransactions, newTransaction, uuid, clock) ==
  Append(prevTransactions,
         [id          |-> randomUUID(uuid),
          description |-> newTransaction.description,
          amount      |-> newTransaction.amount,
          type        |-> newTransaction.type,
          date        |-> clock])

\* Variant of the filter with the comparison inverted.
deleteTransactionInverted(prevTransactions, id) ==
  SelectSeq(prevTransactions, LAMBDA transaction : transaction.id = id)

\* lines 69-71: the updater of deleteTransaction.
deleteTransaction(prevTransactions, id) ==
  SelectSeq(prevTransactions, LAMBDA transaction : transaction.id # id)

\* lines 75-86: the forEach of the useMemo, left to right.
RECURSIVE Accumulate(_, _, _)
Accumulate(trs, income, expenses) ==
  IF trs = <<>>
  THEN [income |-> income, expenses |-> expenses]
  ELSE LET transaction == Head(trs)
       IN IF transaction.amount.k = "number"
          THEN IF transaction.type = INCOME
               THEN Accumulate(Tail(trs), JsAdd(income, transaction.amount),
                               expenses)
               ELSE Accumulate(Tail(trs), income,
                               JsAdd(expenses, transaction.amount))
          ELSE Accumulate(Tail(trs), income, expenses)

\* Variant of the useMemo that subtracts the income from the expenses.
TotalsSwapped(trs) ==
  LET acc == Accumulate(trs, Num(0), Num(0))
  IN [totalIncome   |-> acc.income,
      totalExpenses |-> acc.expenses,
      balance       |-> JsSub(acc.expenses, acc.income)]

\* lines 74-92: { totalIncome, totalExpenses, balance }
Totals(trs) ==
  LET acc == Accumulate(trs, Num(0), Num(0))
  IN [totalIncome   |-> acc.income,
      totalExpenses |-> acc.expenses,
      balance       |-> JsSub(acc.income, acc.expenses)]

(***************************************************************************)
(* Inputs.                                                                 *)
(***************************************************************************)
\* Raw elements of the payloads a session starts from.
Elements ==
  { ObjElem(Str("a"), Str("Salary"), Num(50), Str(INCOME),
            Str(ToISOString(1))),
    ObjElem(Str("b"), Str("Rent"), Num(20), Str(EXPENSE), Str(DateOnly)),
    ObjElem(Str("a"), Undefined, Str("50"), Str("income"), Undefined),
    ObjElem(Undefined, Str(""), Str("abc"), Undefined, Str("not-a-date")),
    NullElem,
    PrimElem }

RECURSIVE SeqsUpTo(_, _)
SeqsUpTo(S, n) ==
  IF n = 0 THEN {<<>>}
  ELSE LET shorter == SeqsUpTo(S, n - 1)
       IN shorter \cup {Append(q, e) : q \in shorter, e \in S}

NonArraySlots == {SlotAbsent, SlotEmpty, SlotGarbage, SlotJson("object"),
                  SlotJson("null")}

Payloads == NonArraySlots \cup {SlotArray(es) : es \in SeqsUpTo(Elements, MaxPayload)}

\* Every combination of field values, for the normalizer.
RawIds          == {Undefined, Str("a"), Str(""), Num(7), EmptyArr}
RawDescriptions == {Undefined, Str("Salary"), Str("")}
RawAmounts      == {Undefined, Null, Num(0), Num(50), Str("50"), Str("abc"),
                    Obj, Infinity}
RawTypes        == {Undefined, Str(INCOME), Str(EXPENSE), Str("income"),
                    Num(1)}
RawDates        == {Undefined, Str(ToISOString(1)), Str(DateOnly),
                    Str("not-a-date"), Num(2)}

AllElements ==
  {NullElem, PrimElem} \cup
  {ObjElem(i, d, a, ty, dt) : i \in RawIds, d \in RawDescriptions,
                              a \in RawAmounts, ty \in RawTypes,
                              dt \in RawDates}

NormPayloads ==
  NonArraySlots \cup
  {SlotArray(Append(pre, e)) : pre \in SeqsUpTo(Elements, MaxNormPrefix),
                               e \in AllElements}

\* What the form submits to addTransaction.
NewTransactions ==
  { [description |-> "Salary", amount |-> Num(10), type |-> INCOME],
    [description |-> "Rent", amount |-> Num(25), type |-> EXPENSE] }

(***************************************************************************)
(* State.                                                                  *)
(*   storage       the localStorage slot 'transactions'                    *)
(*   transactions  the state of the useState hook                          *)
(*   totalIncome, totalExpenses, balance   the value of the useMemo        *)
(*   pc            "boot" before the first render, "mounted" after it,     *)
(*                 "dirty" after a render caused by a mutation (in both    *)
(*                 the passive effect is pending), "idle" otherwise        *)
(*   fault         an exception escaped the initializer                    *)
(*   nextUuid      how many identifiers randomUUID has handed out, plus 1  *)
(*   now           the clock read by new Date()                            *)
(*   lastOp        the last event handled: [op, id]                        *)
(*   preAdd        the state before the last addTransaction, while that    *)
(*                 add is the last mutation or was undone by the last one  *)
(***************************************************************************)
VARIABLES storage, transactions, totalIncome, totalExpenses, balance, pc,
          fault, nextUuid, now, lastOp, preAdd

vars == <<storage, transactions, totalIncome, totalExpenses, balance, pc,
          fault, nextUuid, now, lastOp, preAdd>>

Op(o, i) == [op |-> o, id |-> i]

InitWith(slots, clocks) ==
  /\ storage \in slots
  /\ now \in clocks
  /\ transactions = <<>>
  /\ totalIncome = Num(0)
  /\ totalExpenses = Num(0)
  /\ balance = Num(0)
  /\ pc = "boot"
  /\ fault = FALSE
  /\ nextUuid = 1
  /\ lastOp = Op("none", "")
  /\ preAdd = <<>>

Init == InitWith(Payloads, {0})

InitNorm == InitWith(NormPayloads, {MaxNow})

\* The render that follows a state change: the useMemo recomputes.
Render(trs) ==
  LET t == Totals(trs)
  IN /\ transactions' = trs
     /\ totalIncome' = t.totalIncome
     /\ totalExpenses' = t.totalExpenses
     /\ balance' = t.balance

\* lines 10-55 and 74-92: the first render of App.
Mount ==
  /\ pc = "boot"
  /\ LET r == StateInitializer(storage, now, nextUuid)
     IN /\ Render(r.value)
        /\ fault' = r.threw
        /\ nextUuid' = r.uuid
  /\ pc' = "mounted"
  /\ lastOp' = Op("mount", "")
  /\ UNCHANGED <<storage, now, preAdd>>

\* Variant of the effect that skips the write for an empty collection.
PersistEffectNonEmpty ==
  /\ pc \in {"mounted", "dirty"}
  /\ storage' = IF transactions = <<>> THEN storage
                ELSE JSONstringify(transactions)
  /\ pc' = "idle"
  /\ UNCHANGED <<transactions, totalIncome, totalExpenses, balance, fault,
                 nextUuid, now, lastOp, preAdd>>

\* lines 57-59: the passive effect, run after every render that changed
\* `transactions` and before the next event is handled.
PersistEffect ==
  /\ pc \in {"mounted", "dirty"}
  /\ storage' = JSONstringify(transactions)
  /\ pc' = "idle"
  /\ UNCHANGED <<transactions, totalIncome, totalExpenses, balance, fault,
                 nextUuid, now, lastOp, preAdd>>

\* lines 61-66, and the render the state change causes.
AddTransaction ==
  /\ pc = "idle"
  /\ Len(transactions) < MaxLen
  /\ nextUuid <= MaxUuid
  /\ \E newTransaction \in NewTransactions :
       Render(addTransaction(transactions, newTransaction, nextUuid, now))
  /\ lastOp' = Op("add", transactions'[Len(transactions')].id)
  /\ preAdd' = transactions
  /\ nextUuid' = nextUuid + 1
  /\ pc' = "dirty"
  /\ UNCHANGED <<storage, fault, now>>

\* The identifiers a delete can be asked for.
DeleteIds == {transactions[i].id : i \in 1..Len(transactions)} \cup {"missing"}

\* lines 68-72, and the render the state change causes.
DeleteTransaction ==
  /\ pc = "idle"
  /\ \E id \in DeleteIds :
       /\ Render(deleteTransaction(transactions, id))
       /\ IF lastOp = Op("add", id)
          THEN lastOp' = Op("deleteAdded", id) /\ preAdd' = preAdd
          ELSE lastOp' = Op("delete", id) /\ preAdd' = <<>>
  /\ pc' = "dirty"
  /\ UNCHANGED <<storage, fault, nextUuid, now>>

\* Time passes.
Tick ==
  /\ now < MaxNow
  /\ now' = now + 1
  /\ UNCHANGED <<storage, transactions, totalIncome, totalExpenses, balance,
                 pc, fault, nextUuid, lastOp, preAdd>>

Next == Mount \/ PersistEffect \/ AddTransaction \/ DeleteTransaction \/ Tick

Spec == Init /\ [][Next]_vars

NextNorm == Mount \/ PersistEffect

SpecNorm == InitNorm /\ [][NextNorm]_vars

TypeOK ==
  /\ pc \in {"boot", "mounted", "dirty", "idle"}
  /\ fault \in BOOLEAN
  /\ now \in 0..MaxNow
  /\ \A i \in 1..Len(transactions) : transactions[i].amount.k = "number"

(***************************************************************************)
(* Properties.                                                             *)
(***************************************************************************)
IsArrayPayload(slot) == slot.sk = "json" /\ slot.jk = "array"

\* The state right after the first render: `storage` still holds the payload
\* the session started from and `transactions` its normalization.
Seeded == pc = "mounted"

\* C1: once an operation has completed (render and effect done), the slot
\* holds the serialization of the current sequence, and every write to the
\* slot writes the sequence as it is at that moment.
C1_WriteThrough ==
  /\ [](pc = "idle" => storage = JSONstringify(transactions))
  /\ [][storage' # storage => storage' = JSONstringify(transactions')]_vars

C1_Witness ==
  /\ pc = "idle"
  /\ lastOp.op = "delete"
  /\ Len(transactions) >= 2
  /\ storage = JSONstringify(transactions)

\* C2: the transactions of the store have pairwise distinct ids.
C2_UniqueIds ==
  pc # "boot" =>
    \A i, j \in 1..Len(transactions) :
      i # j => transactions[i].id # transactions[j].id

\* The sequence q without its k-th element.
RemoveAt(q, k) == [i \in 1..(Len(q) - 1) |-> IF i < k THEN q[i] ELSE q[i + 1]]

IsDeleteStep ==
  pc = "idle" /\ pc' = "dirty" /\ lastOp'.op \in {"delete", "deleteAdded"}

\* C3: a delete removes exactly one element, the one with the id, and keeps
\* the others in order; it changes nothing when no element has the id.
C3_DeleteRemovesOne ==
  [][IsDeleteStep =>
       IF \E k \in 1..Len(transactions) : transactions[k].id = lastOp'.id
       THEN \E k \in 1..Len(transactions) :
              /\ transactions[k].id = lastOp'.id
              /\ transactions' = RemoveAt(transactions, k)
       ELSE transactions' = transactions]_vars

\* C4: an array payload is normalized element by element: same length, the
\* i-th transaction being the repair of the i-th element.
C4_OneOutputPerElement ==
  (Seeded /\ IsArrayPayload(storage)) =>
    /\ Len(transactions) = Len(storage.items)
    /\ \A i \in 1..Len(transactions) :
         transactions[i].description =
           IF Truthy(storage.items[i].description)
           THEN JsString(storage.items[i].description) ELSE "N/A"

\* C5: the normalized amount is the numeric coercion of the stored amount
\* when that is a number, and 0 when the stored amount is absent, falsy or
\* not numeric.
C5_AmountIsValidNumber ==
  (Seeded /\ IsArrayPayload(storage)
          /\ Len(transactions) = Len(storage.items)) =>
    \A i \in 1..Len(transactions) :
      LET raw == storage.items[i].amount
          coerced == ToNumber(raw)
      IN /\ ~IsNaN(transactions[i].amount)
         /\ transactions[i].amount =
              IF Truthy(raw) /\ ~IsNaN(coerced) THEN coerced ELSE Num(0)

\* C6: a slot that was never written, cannot be decoded or does not hold an
\* array seeds the empty sequence, and no exception escapes.
C6_BadPayloadSeedsEmpty ==
  (Seeded /\ ~IsArrayPayload(storage)) =>
    (~fault /\ transactions = <<>>)

C6_Witness ==
  Seeded /\ storage = SlotGarbage /\ ~fault /\ transactions = <<>>

\* C7: the normalized type is the stored type when that is exactly INCOME or
\* EXPENSE, and EXPENSE otherwise.
C7_TypeIsEnumerated ==
  /\ \A i \in 1..Len(transactions) : transactions[i].type \in {INCOME, EXPENSE}
  /\ (Seeded /\ IsArrayPayload(storage)
             /\ Len(transactions) = Len(storage.items)) =>
       \A i \in 1..Len(transactions) :
         transactions[i].type =
           IF storage.items[i].type \in {Str(INCOME), Str(EXPENSE)}
           THEN storage.items[i].type.s ELSE EXPENSE

C7_Witness ==
  /\ Seeded /\ IsArrayPayload(storage)
  /\ \E i \in 1..Len(transactions) :
       /\ i <= Len(storage.items)
       /\ storage.items[i].type = Str("income")
       /\ transactions[i].type = EXPENSE
  /\ \E i \in 1..Len(transactions) :
       /\ i <= Len(storage.items)
       /\ storage.items[i].type = Str(INCOME)
       /\ transactions[i].type = INCOME

\* C8: an add followed immediately by the delete of the id the add assigned
\* gives back the sequence as it was before the add.
C8_AddThenDelete ==
  lastOp.op = "deleteAdded" => transactions = preAdd

C8_Witness ==
  lastOp.op = "deleteAdded" /\ Len(transactions) >= 2 /\ transactions = preAdd

\* A payload of the documented layout: every element an object with string
\* id and description, a number amount, an enumerated type and a date string
\* that parses.
WellFormedElement(e) ==
  /\ e.ek = "object"
  /\ e.id.k = "string"
  /\ e.description.k = "string"
  /\ e.amount.k = "number"
  /\ e.type \in {Str(INCOME), Str(EXPENSE)}
  /\ e.date.k = "string"
  /\ ~IsNaN(DateParse(e.date))

WellFormed(slot) ==
  /\ IsArrayPayload(slot)
  /\ \A i \in 1..Len(slot.items) : WellFormedElement(slot.items[i])

\* Normalizing the serialization of trs at any later time.
Renormalized(trs, clock) ==
  StateInitializer(JSONstringify(trs), clock, nextUuid).value

\* C9: for a well-formed payload, serializing the normalized collection and
\* normalizing it again gives the same collection.
C9_NormalizeIdempotent ==
  (Seeded /\ WellFormed(storage)) =>
    \A clock \in now..MaxNow : Renormalized(transactions, clock) = transactions

\* C9 with the amounts of the payload restricted to finite numbers.
C9_FiniteAmounts ==
  (Seeded /\ WellFormed(storage)
          /\ \A i \in 1..Len(storage.items) : IsFinite(storage.items[i].amount)) =>
    \A clock \in now..MaxNow : Renormalized(transactions, clock) = transactions

\* The sum of the amounts of a sequence of transactions, from the right.
RECURSIVE SumAmounts(_)
SumAmounts(trs) ==
  IF trs = <<>> THEN Num(0)
  ELSE JsAdd(SumAmounts(SubSeq(trs, 1, Len(trs) - 1)), trs[Len(trs)].amount)

\* C10: the totals are those of the current sequence.
C10_TotalsMatch ==
  pc # "boot" =>
    /\ totalIncome =
         SumAmounts(SelectSeq(transactions, LAMBDA t : t.type = INCOME))
    /\ totalExpenses =
         SumAmounts(SelectSeq(transactions, LAMBDA t : t.type # INCOME))
    /\ balance = JsSub(totalIncome, totalExpenses)

C10_Witness ==
  /\ pc = "dirty"
  /\ lastOp.op = "delete"
  /\ totalIncome = Num(60)
  /\ totalExpenses = Num(25)
  /\ balance = Num(35)

====
